---- MODULE Spec2Model ----
(***************************************************************************)
(* The on-chain ledger of the jukebox: the two revisions of                *)
(* jukebox::jukebox (src/jukebox/sources/jukebox.move) and the             *)
(* todo_list::music_jukebox module with owner-only removal.                *)
(*                                                                         *)
(* A transaction is one atomic step: Move aborts roll the whole            *)
(* transaction back, and the platform orders the transactions that touch   *)
(* a shared object one after the other.  Each step leaves in lastTx        *)
(* (mjTx for music_jukebox) what the transaction did: its call, its        *)
(* status, the coins it transferred and the events it emitted.             *)
(***************************************************************************)
EXTENDS Integers, Sequences, FiniteSets, TLC

(* ------------------------------ bounds -------------------------------- *)

\* Longest Jukebox.collection explored.
MaxTracks == 3

\* Largest overpayment explored, in MIST above the fee.
MaxExcess == 1

\* Longest MusicJukebox.tracks explored.
MaxMusicTracks == 3

(* ------------------------- program constants -------------------------- *)

E_INSUFFICIENT_PAYMENT == 1

E_TRACK_NOT_FOUND == 2

ONE_SUI == 1000000000

\* The abort code of remove_track's owner assertion.
E_NOT_OWNER == 0

\* std::vector's abort code for an index past the end, raised by remove.
EINDEX_OUT_OF_BOUNDS == 131072

(* ------------------------------ inputs -------------------------------- *)

Deployer == "deployer"

Addresses == {Deployer, "alice", "bob"}

\* The initial value of track_artist in change_track's scan (@0x0).
ZeroAddress == "0x0"

Silence == "Silence"

Titles == {"SongA", "SongB"}

\* Coin values offered as payment: one short of the fee, the fee, and above.
Payments == {ONE_SUI - 1} \cup (ONE_SUI .. (ONE_SUI + MaxExcess))

VARIABLES
    revision,   \* which revision of jukebox::jukebox is published: "v1" | "v2"
    jukebox,    \* the shared Jukebox object
    lastTx,     \* the last transaction on the Jukebox and its effects
    committed,  \* history: title and payer of the last successful change_track
    mj,         \* the MusicJukebox object
    mjTx,       \* the last transaction on the MusicJukebox and its effects
    ledgerTrack,    \* current_track as the chain API serves it to a client
    fetches,        \* the client's poll fetches in flight, oldest first
    lastChainTrack, \* lastChainTrackRef.current
    player,         \* AudioPlayer: playlistRef.current, currentIndex, Howls
    event,          \* the last step of client or proxy and its input
    newestDone,     \* history: value read by the newest poll that has ended
    fields,         \* App: fields.current_track of the getObject query
    waiting,        \* App: the waiting state
    uiMsg,          \* App: the uiMsg state
    pendingQuery,   \* App: the pendingQuery state
    currentAccount, \* App: whether a wallet account is connected
    submission,     \* where the client's change_track submissions stand
    cache,          \* proxy: the files of CACHE_DIR, by blob id
    reqs,           \* proxy: the /api/audio requests being downloaded
    response,       \* proxy: the last response sent
    servedOk,       \* history: blob ids served with status 200 so far
    piping,         \* proxy: the read stream piped to each caller's response
    uploads,        \* proxy: the /api/upload requests being uploaded
    uploadResponse, \* proxy: the last response sent to an upload request
    trackCache,     \* TrackCache: the cache map, currentCacheSize, the clock
    tcCalls,        \* TrackCache: the getTrack calls that are downloading
    chatMessages    \* App: how many chat messages the chat shows

ledgerVars == <<revision, jukebox, lastTx, committed, mj, mjTx>>

playerVars ==
    <<ledgerTrack, fetches, lastChainTrack, player, event, newestDone, fields>>

submitVars == <<waiting, uiMsg, pendingQuery, currentAccount, submission>>

audioVars == <<cache, reqs, response, servedOk, piping>>

uploadVars == <<uploads, uploadResponse>>

proxyVars == <<audioVars, uploadVars>>

trackVars == <<trackCache, tcCalls>>

vars ==
    <<ledgerVars, playerVars, submitVars, proxyVars, trackVars, chatMessages>>

(* ----------------------- jukebox::jukebox ----------------------------- *)

initCollection == <<>>

\* fun init, first revision: no collection field.
InitJukeboxV1 ==
    [owner |-> Deployer, fee |-> ONE_SUI, last_buyer |-> Deployer,
     current_track |-> Silence]

\* fun init, second revision.
InitJukeboxV2 ==
    [owner |-> Deployer, fee |-> ONE_SUI, last_buyer |-> Deployer,
     current_track |-> Silence, collection |-> initCollection]

\* The transaction that published the module.
InitTx ==
    [op |-> "init", sender |-> Deployer, paid |-> 0, title |-> Silence,
     status |-> "success", code |-> 0, consumed |-> 0,
     transfers |-> <<>>, events |-> <<>>]

\* An aborted transaction: nothing is written, no coin moves, the payment
\* coin stays with the sender.
Aborted(jb, abort_code) ==
    [status |-> "abort", code |-> abort_code, jukebox |-> jb, consumed |-> 0,
     transfers |-> <<>>, events |-> <<>>]

\* transfer::public_transfer(coin, recipient)
Transfer(recipient, amount) == [to |-> recipient, amount |-> amount]

\* Variant: the comparison is off by one and lets fee - 1 through.
PaymentSufficientOffByOne(paid, fee) == paid + 1 >= fee

\* Variant: the assertion on the payment is missing.
PaymentSufficientAlways(paid, fee) == TRUE

\* assert!(paid >= jukebox.fee, E_INSUFFICIENT_PAYMENT)
PaymentSufficient(paid, fee) == paid >= fee

\* The change sent back to the sender: split(&mut payment, paid - fee).
Change(sender, paid, fee) ==
    IF paid > fee THEN <<Transfer(sender, paid - fee)>> ELSE <<>>

\* The value left in `payment` after the change has been split off.
AfterChange(paid, fee) ==
    IF paid > fee THEN paid - (paid - fee) ELSE paid

\* Variant: the division by two is forgotten.
ArtistShareWhole(fee) == fee

\* split(&mut payment, jukebox.fee / 2): u64 division truncates.
ArtistShare(fee) == fee \div 2

\* Variant: the write of last_buyer is forgotten.
WriteTrackOnly(jb, sender, new_track) ==
    [jb EXCEPT !.current_track = new_track]

\* Variant: the sender is written to owner instead of last_buyer.
WriteTrackToOwner(jb, sender, new_track) ==
    [jb EXCEPT !.owner = sender, !.current_track = new_track]

\* jukebox.last_buyer = sender(ctx); jukebox.current_track = new_track;
WriteTrack(jb, sender, new_track) ==
    [jb EXCEPT !.last_buyer = sender, !.current_track = new_track]

\* The while loop of change_track: from index i (0-based) to the first entry
\* whose title is new_track.
RECURSIVE ScanFrom(_, _, _)
ScanFrom(collection, new_track, i) ==
    IF i < Len(collection)
    THEN IF collection[i + 1].title = new_track
         THEN [track_exists |-> TRUE, track_artist |-> collection[i + 1].artist]
         ELSE ScanFrom(collection, new_track, i + 1)
    ELSE [track_exists |-> FALSE, track_artist |-> ZeroAddress]

\* Variant: track_exists starts out true.
FindArtistDefaultFound(collection, new_track) ==
    [ScanFrom(collection, new_track, 0) EXCEPT !.track_exists = TRUE]

\* Variant: the loop has no break, so the last match wins.
RECURSIVE ScanNoBreak(_, _, _, _)
ScanNoBreak(collection, new_track, i, found) ==
    IF i < Len(collection)
    THEN IF collection[i + 1].title = new_track
         THEN ScanNoBreak(collection, new_track, i + 1,
                          [track_exists |-> TRUE,
                           track_artist |-> collection[i + 1].artist])
         ELSE ScanNoBreak(collection, new_track, i + 1, found)
    ELSE found

FindArtistNoBreak(collection, new_track) ==
    ScanNoBreak(collection, new_track, 0,
                [track_exists |-> FALSE, track_artist |-> ZeroAddress])

FindArtist(collection, new_track) == ScanFrom(collection, new_track, 0)

\* Variant: the track is inserted at the front.
PushTrackFront(collection, sender, title) ==
    <<[id |-> Len(collection) + 1, artist |-> sender, title |-> title]>>
        \o collection

\* jukebox.collection.push_back(Track { id: object::new(ctx), artist, title })
PushTrack(collection, sender, title) ==
    Append(collection,
           [id |-> Len(collection) + 1, artist |-> sender, title |-> title])

\* change_track of the first revision: the whole fee goes to the owner.
ChangeTrackV1(jb, sender, paid, new_track) ==
    IF ~PaymentSufficient(paid, jb.fee)
    THEN Aborted(jb, E_INSUFFICIENT_PAYMENT)
    ELSE [status |-> "success", code |-> 0,
          jukebox |-> WriteTrack(jb, sender, new_track),
          consumed |-> paid,
          transfers |-> Change(sender, paid, jb.fee)
                        \o <<Transfer(jb.owner, AfterChange(paid, jb.fee))>>,
          events |-> <<>>]

\* change_track of the second revision: registry lookup and fee split.
ChangeTrackV2(jb, sender, paid, new_track) ==
    IF ~PaymentSufficient(paid, jb.fee)
    THEN Aborted(jb, E_INSUFFICIENT_PAYMENT)
    ELSE LET found == FindArtist(jb.collection, new_track)
             payment == AfterChange(paid, jb.fee)
             artist_share == ArtistShare(jb.fee)
         IN  IF ~found.track_exists
             THEN Aborted(jb, E_TRACK_NOT_FOUND)
             ELSE [status |-> "success", code |-> 0,
                   jukebox |-> WriteTrack(jb, sender, new_track),
                   consumed |-> paid,
                   transfers |-> Change(sender, paid, jb.fee)
                                 \o <<Transfer(found.track_artist, artist_share),
                                      Transfer(jb.owner, payment - artist_share)>>,
                   events |-> <<>>]

\* What a transaction leaves behind for its observers.
TxRecord(op, sender, paid, title, r) ==
    [op |-> op, sender |-> sender, paid |-> paid, title |-> title,
     status |-> r.status, code |-> r.code, consumed |-> r.consumed,
     transfers |-> r.transfers, events |-> r.events]

Committed(r, sender, new_track) ==
    IF r.status = "success"
    THEN [title |-> new_track, payer |-> sender]
    ELSE committed

addTrack(sender, title) ==
    /\ revision = "v2"
    /\ Len(jukebox.collection) < MaxTracks
    /\ jukebox' = [jukebox EXCEPT
                     !.collection = PushTrack(jukebox.collection, sender, title)]
    /\ lastTx' = [op |-> "addTrack", sender |-> sender, paid |-> 0,
                  title |-> title, status |-> "success", code |-> 0,
                  consumed |-> 0, transfers |-> <<>>, events |-> <<>>]
    /\ UNCHANGED <<revision, committed, mj, mjTx,
                   playerVars, submitVars, proxyVars, trackVars, chatMessages>>

change_track_v1(sender, paid, new_track) ==
    /\ revision = "v1"
    /\ LET r == ChangeTrackV1(jukebox, sender, paid, new_track)
       IN  /\ jukebox' = r.jukebox
           /\ lastTx' = TxRecord("change_track", sender, paid, new_track, r)
           /\ committed' = Committed(r, sender, new_track)
    /\ UNCHANGED <<revision, mj, mjTx,
                   playerVars, submitVars, proxyVars, trackVars, chatMessages>>

change_track(sender, paid, new_track) ==
    /\ revision = "v2"
    /\ LET r == ChangeTrackV2(jukebox, sender, paid, new_track)
       IN  /\ jukebox' = r.jukebox
           /\ lastTx' = TxRecord("change_track", sender, paid, new_track, r)
           /\ committed' = Committed(r, sender, new_track)
    /\ UNCHANGED <<revision, mj, mjTx,
                   playerVars, submitVars, proxyVars, trackVars, chatMessages>>

(* --------------------- todo_list::music_jukebox ----------------------- *)

ArtistNames == {"Queen"}

BlobIds == {"blob1"}

Durations == {180}

\* public fun new
NewMusicJukebox(sender) == [tracks |-> <<>>, owner |-> sender]

InitMjTx(sender) ==
    [op |-> "new", sender |-> sender, index |-> 0, status |-> "success",
     code |-> 0, returned |-> <<>>]

\* Variant: the owner assertion is missing.
IsOwnerUnchecked(sender, owner) == TRUE

\* assert!(ctx.sender() == jukebox.owner, 0)
IsOwner(sender, owner) == sender = owner

\* Variant: pop_back instead of remove(index).
VectorRemoveLast(v, index) == SubSeq(v, 1, Len(v) - 1)

\* std::vector::remove(i): the element at (0-based) i leaves, the ones after
\* it shift down by one.
VectorRemove(v, index) ==
    [j \in 1 .. (Len(v) - 1) |-> IF j <= index THEN v[j] ELSE v[j + 1]]

RemoveTrack(m, sender, index) ==
    IF ~IsOwner(sender, m.owner)
    THEN [status |-> "abort", code |-> E_NOT_OWNER, mj |-> m, returned |-> <<>>]
    ELSE IF ~(index < Len(m.tracks))
         THEN [status |-> "abort", code |-> EINDEX_OUT_OF_BOUNDS, mj |-> m,
               returned |-> <<>>]
         ELSE [status |-> "success", code |-> 0,
               mj |-> [m EXCEPT !.tracks = VectorRemove(m.tracks, index)],
               returned |-> <<m.tracks[index + 1]>>]

add_track(sender, title, artist, walrus_blob_id, duration_seconds) ==
    /\ Len(mj.tracks) < MaxMusicTracks
    /\ mj' = [mj EXCEPT !.tracks = Append(mj.tracks,
                 [title |-> title, artist |-> artist,
                  walrus_blob_id |-> walrus_blob_id,
                  duration_seconds |-> duration_seconds,
                  added_by |-> sender])]
    /\ mjTx' = [op |-> "add_track", sender |-> sender, index |-> 0,
                status |-> "success", code |-> 0, returned |-> <<>>]
    /\ UNCHANGED <<revision, jukebox, lastTx, committed,
                   playerVars, submitVars, proxyVars, trackVars, chatMessages>>

remove_track(sender, index) ==
    /\ LET r == RemoveTrack(mj, sender, index)
       IN  /\ mj' = r.mj
           /\ mjTx' = [op |-> "remove_track", sender |-> sender,
                       index |-> index, status |-> r.status, code |-> r.code,
                       returned |-> r.returned]
    /\ UNCHANGED <<revision, jukebox, lastTx, committed,
                   playerVars, submitVars, proxyVars, trackVars, chatMessages>>

(* ------------------ AudioPlayer: the playlist and its Howls ----------- *)

\* The first songs of the playlist the parent hands to the AudioPlayer.
PLAYLIST ==
    << [title |-> "Horizon", file |-> "horizon"],
       [title |-> "skelet",  file |-> "inside_out"] >>

\* Values of current_track the ledger may hold: the first is the file of
\* song 0, the second the title of song 1 in another case, the last one
\* names no song.
ChainValues == {"horizon", "SKELET", "ghost"}

\* null: lastChainTrackRef before the first poll, an absent query result.
Null == "null"

\* String.prototype.toLowerCase on the strings of the model.
toLowerCase(s) ==
    CASE s = "Horizon" -> "horizon"
      [] s = "SKELET"  -> "skelet"
      [] s = "Ghost"   -> "ghost"
      [] OTHER         -> s

\* A song without a Howl (song.howl undefined).
NoHowl == [made |-> FALSE, playing |-> FALSE, pos |-> 0, closure |-> 0]

\* new Howl(...): closure is the currentIndex of the render whose play
\* created it, the one its onend handler's skip('next') will use.
NewHowl(closure) ==
    [made |-> TRUE, playing |-> FALSE, pos |-> 0, closure |-> closure]

\* Howl.stop(): playback ends and the seek position returns to the start.
HowlStop(howl) == [howl EXCEPT !.playing = FALSE, !.pos = 0]

\* Howl.play() on a sound that is not playing.
HowlPlay(howl) == [howl EXCEPT !.playing = TRUE]

\* Playlist objects as the parent creates them: no Howl yet.
FreshPlaylist ==
    [i \in 1 .. Len(PLAYLIST) |->
        [title |-> PLAYLIST[i].title, file |-> PLAYLIST[i].file,
         howl |-> NoHowl]]

\* The playlist after the parent's track list has gained a track whose
\* title is the one value of ChainValues that named no song.
GainedPlaylist ==
    Append(FreshPlaylist,
           [title |-> "Ghost", file |-> "ghost_blob", howl |-> NoHowl])

\* The AudioPlayer after mount: currentIndex 0, nothing created.
InitPlayer ==
    [playlist |-> FreshPlaylist, currentIndex |-> 0, orphans |-> {}]

\* Array.prototype.findIndex, given for each element whether the test
\* accepts it: the 0-based index of the first accepted one, -1 when none is.
FindIndex(hits) ==
    IF \E i \in 1 .. Len(hits) : hits[i]
    THEN (CHOOSE i \in 1 .. Len(hits) :
             /\ hits[i]
             /\ \A j \in 1 .. (i - 1) : ~hits[j]) - 1
    ELSE -1

\* s => s.file === key, over the playlist.
FileIs(playlist, key) ==
    [i \in 1 .. Len(playlist) |-> playlist[i].file = key]

\* s => s.title.toLowerCase() === key.toLowerCase(), over the playlist.
TitleIs(playlist, key) ==
    [i \in 1 .. Len(playlist) |->
        toLowerCase(playlist[i].title) = toLowerCase(key)]

\* play(index): create the Howl if the song has none, start it unless it
\* is playing already, setCurrentIndex(playIndex).
Play(p, playIndex, closure) ==
    IF playIndex < 0 \/ playIndex >= Len(p.playlist) THEN p
    ELSE LET data  == p.playlist[playIndex + 1]
             sound == IF data.howl.made THEN data.howl ELSE NewHowl(closure)
         IN  [p EXCEPT !.playlist[playIndex + 1].howl =
                           IF ~sound.playing THEN HowlPlay(sound) ELSE sound,
                       !.currentIndex = playIndex]

\* skipTo(index): stop the Howl of the song at the closure's currentIndex,
\* then play(index).
SkipTo(p, index, closure) ==
    LET currentSound == p.playlist[closure + 1].howl
        stopped == IF currentSound.made
                   THEN [p EXCEPT !.playlist[closure + 1].howl =
                                      HowlStop(currentSound)]
                   ELSE p
    IN  Play(stopped, index, closure)

\* skip('next'): the song after the closure's currentIndex, wrapping round.
SkipNext(p, closure) ==
    LET index == IF closure + 1 >= Len(p.playlist) THEN 0 ELSE closure + 1
    IN  SkipTo(p, index, closure)

\* Variant: a key that no file matches falls back to the first song.
ResolveOrFirst(playlist, key) ==
    LET byFileIdx == FindIndex(FileIs(playlist, key))
    IN  IF byFileIdx # -1 THEN byFileIdx ELSE 0

\* The tick's resolution of a polled key: by file first, then by title
\* whatever the case.
Resolve(playlist, key) ==
    LET byFileIdx == FindIndex(FileIs(playlist, key))
    IN  IF byFileIdx # -1 THEN byFileIdx
        ELSE FindIndex(TitleIs(playlist, key))

\* playByTitle(title): skipTo the song of that title, or warn.
PlayByTitle(p, title) ==
    LET index == FindIndex(TitleIs(p.playlist, title))
    IN  IF index # -1 THEN SkipTo(p, index, p.currentIndex) ELSE p

\* The Howls that are playing: those of the playlist's songs, by index,
\* and those no song refers to any more.
PlayingSongs(p) ==
    {i \in 0 .. (Len(p.playlist) - 1) : p.playlist[i + 1].howl.playing}

PlayingCount(p) == Cardinality(PlayingSongs(p)) + Cardinality(p.orphans)

(* ------------------ AudioPlayer: the chain polling effect ------------- *)

\* Most poll fetches of one client in flight together that are explored.
MaxInFlight == 2

\* Most Howls explored that play while no song of the playlist refers to
\* them.
MaxOrphans == 1

\* fetchCurrentTrackFromChain() leaves: the request reads current_track;
\* cancelled is the flag of the effect instance that sent it, overtaken
\* tells that a poll started later has answered already.
NewFetch == [val |-> ledgerTrack, cancelled |-> FALSE, overtaken |-> FALSE]

\* A fetch of a tick whose effect instance was cleaned up: it stays in
\* flight, and the tick will return without looking at what it read.
Cancelled == [val |-> Null, cancelled |-> TRUE, overtaken |-> FALSE]

\* The polling effect runs again: the cleanup sets cancelled for the ticks
\* of the old instance, clears the interval, and the new instance calls
\* tick() at once.
EffectRerun(fs) == Append([i \in 1 .. Len(fs) |-> Cancelled], NewFetch)

\* After a handler: skipTo is a new function when currentIndex changed
\* (useCallback deps), and the effect depends on it.
AfterRender(fs, before, after) ==
    IF after.currentIndex # before.currentIndex THEN EffectRerun(fs) ELSE fs

\* Variant: every poll counts as a change.
KeyChangedAlways(key, last) == TRUE

\* key !== lastChainTrackRef.current
KeyChanged(key, last) == key # last

\* Variant: the value is recorded only when a song was found for it.
RecordedIfResolved(last, key, index) == IF index # -1 THEN key ELSE last

\* lastChainTrackRef.current = key, written before the playlist is
\* searched, whatever the search finds.
Recorded(last, key, index) == key

ClientEvent(op, key) == [op |-> op, key |-> key]

\* Somebody's change_track lands on the ledger.
ledger_change(v) ==
    /\ v # ledgerTrack
    /\ ledgerTrack' = v
    /\ event' = ClientEvent("ledger", Null)
    /\ UNCHANGED <<fetches, lastChainTrack, player, newestDone, fields,
                   ledgerVars, submitVars, proxyVars, trackVars, chatMessages>>

\* setInterval(tick, 5000) fires: tick() sends its fetch, whatever the
\* earlier ticks are doing.
timer_fire ==
    /\ Len(fetches) < MaxInFlight
    /\ fetches' = Append(fetches, NewFetch)
    /\ event' = ClientEvent("timer", Null)
    /\ UNCHANGED <<ledgerTrack, lastChainTrack, player, newestDone, fields,
                   ledgerVars, submitVars, proxyVars, trackVars, chatMessages>>

\* The rest of tick() once the fetch sent k-th among those in flight has
\* answered; ok is FALSE for a response that makes
\* fetchCurrentTrackFromChain return null.
tick_response(k, ok) ==
    /\ k \in 1 .. Len(fetches)
    /\ LET f        == fetches[k]
           rest     == [i \in 1 .. (Len(fetches) - 1) |->
                          IF i < k
                          THEN [fetches[i] EXCEPT
                                  !.overtaken = @ \/ (ok /\ ~f.cancelled)]
                          ELSE fetches[i + 1]]
           observes == ok /\ ~f.cancelled
           changed  == observes /\ KeyChanged(f.val, lastChainTrack)
           index    == IF changed THEN Resolve(player.playlist, f.val)
                       ELSE -1
           after    == IF index # -1
                       THEN SkipTo(player, index, player.currentIndex)
                       ELSE player
       IN  /\ lastChainTrack' =
                 IF changed THEN Recorded(lastChainTrack, f.val, index)
                 ELSE lastChainTrack
           /\ player' = after
           /\ fetches' = AfterRender(rest, player, after)
           /\ newestDone' = IF observes /\ ~f.overtaken THEN f.val
                            ELSE newestDone
           /\ event' = ClientEvent("tick", IF observes THEN f.val ELSE Null)
    /\ UNCHANGED <<ledgerTrack, fields, ledgerVars, submitVars, proxyVars, trackVars, chatMessages>>

\* The parent's effect on fields?.current_track: playByTitle when the
\* title is there.
AutoPlay(p, title) == IF title # Null THEN PlayByTitle(p, title) ELSE p

\* Most chat messages shown that are followed.
MaxChat == 2

\* The same effect on the chat: setChatMessages([]) when the title is
\* there (setLastTrackChangeTime makes later polls drop what came before).
AutoClear(messages, title) == IF title # Null THEN 0 ELSE messages

\* The parent's getObject query delivers the ledger's object (first load,
\* refetch on focus): a changed current_track runs the auto-play effect.
query_result ==
    /\ fields # ledgerTrack
    /\ LET after == AutoPlay(player, ledgerTrack)
       IN  /\ fields' = ledgerTrack
           /\ player' = after
           /\ fetches' = AfterRender(fetches, player, after)
           /\ Len(fetches') <= MaxInFlight
           /\ event' = ClientEvent("query", Null)
    /\ chatMessages' = AutoClear(chatMessages, ledgerTrack)
    /\ UNCHANGED <<ledgerTrack, lastChainTrack, newestDone,
                   ledgerVars, submitVars, proxyVars, trackVars>>

\* The play button: play() of the current song.
play_button ==
    /\ LET after == Play(player, player.currentIndex, player.currentIndex)
       IN  /\ after # player
           /\ player' = after
           /\ event' = ClientEvent("play", Null)
    /\ UNCHANGED <<ledgerTrack, fetches, lastChainTrack, newestDone, fields,
                   ledgerVars, submitVars, proxyVars, trackVars, chatMessages>>

\* Time passes for the playing song at index i: it is past its start.
advance(i) ==
    /\ i \in PlayingSongs(player)
    /\ player.playlist[i + 1].howl.pos = 0
    /\ player' = [player EXCEPT !.playlist[i + 1].howl.pos = 1]
    /\ event' = ClientEvent("advance", Null)
    /\ UNCHANGED <<ledgerTrack, fetches, lastChainTrack, newestDone, fields,
                   ledgerVars, submitVars, proxyVars, trackVars, chatMessages>>

\* The song at index i reaches its end: the Howl is rewound and its onend
\* handler calls the skip('next') of the render that created it.
onend(i) ==
    /\ i \in PlayingSongs(player)
    /\ player.playlist[i + 1].howl.pos = 1
    /\ LET howl  == player.playlist[i + 1].howl
           ended == [player EXCEPT !.playlist[i + 1].howl = HowlStop(howl)]
           after == SkipNext(ended, howl.closure)
       IN  /\ player' = after
           /\ fetches' = AfterRender(fetches, player, after)
           /\ Len(fetches') <= MaxInFlight
           /\ event' = ClientEvent("onend", Null)
    /\ UNCHANGED <<ledgerTrack, lastChainTrack, newestDone, fields,
                   ledgerVars, submitVars, proxyVars, trackVars, chatMessages>>

\* A Howl that no song refers to reaches its end: same handler.
onend_orphan(o) ==
    /\ o \in player.orphans
    /\ LET ended == [player EXCEPT !.orphans = @ \ {o}]
           after == SkipNext(ended, o.closure)
       IN  /\ player' = after
           /\ fetches' = AfterRender(fetches, player, after)
           /\ Len(fetches') <= MaxInFlight
           /\ event' = ClientEvent("onend", Null)
    /\ UNCHANGED <<ledgerTrack, lastChainTrack, newestDone, fields,
                   ledgerVars, submitVars, proxyVars, trackVars, chatMessages>>

\* The Howls that play when the playlist objects are replaced: nothing
\* stops them, and no song keeps them.
Orphaned(p) ==
    {[file |-> p.playlist[i + 1].file,
      closure |-> p.playlist[i + 1].howl.closure] : i \in PlayingSongs(p)}

\* The parent's poll of the Walrus tracks sets walrusTracks to a new array:
\* unifiedPlaylist is recomputed into new song objects, playlistRef.current
\* takes them, the polling effect runs again (playlist is a dependency),
\* and so does the parent's auto-play effect (walrusTracks is one).
refresh ==
    /\ LET replaced == [player EXCEPT
                          !.playlist = FreshPlaylist,
                          !.orphans = @ \cup Orphaned(player)]
           after    == AutoPlay(replaced, fields)
       IN  /\ player' = after
           /\ Cardinality(after.orphans) <= MaxOrphans
           /\ fetches' = AfterRender(EffectRerun(fetches), player, after)
           /\ Len(fetches') <= MaxInFlight
           /\ event' = ClientEvent("refresh", Null)
    /\ chatMessages' = AutoClear(chatMessages, fields)
    /\ UNCHANGED <<ledgerTrack, lastChainTrack, newestDone, fields,
                   ledgerVars, submitVars, proxyVars, trackVars>>

\* The parent's poll of the Walrus tracks finds a track that was added:
\* as in refresh the playlist is recomputed into new song objects, now with
\* one more entry, and the polling effect and the parent's auto-play effect
\* run again.
playlist_gain ==
    /\ Len(player.playlist) = Len(PLAYLIST)
    /\ LET replaced == [player EXCEPT
                          !.playlist = GainedPlaylist,
                          !.orphans = @ \cup Orphaned(player)]
           after    == AutoPlay(replaced, fields)
       IN  /\ player' = after
           /\ Cardinality(after.orphans) <= MaxOrphans
           /\ fetches' = AfterRender(EffectRerun(fetches), player, after)
           /\ Len(fetches') <= MaxInFlight
           /\ event' = ClientEvent("playlist_gain", Null)
    /\ chatMessages' = AutoClear(chatMessages, fields)
    /\ UNCHANGED <<ledgerTrack, lastChainTrack, newestDone, fields,
                   ledgerVars, submitVars, proxyVars, trackVars>>

\* A poll of the chat events shows one more message.
chat_poll ==
    /\ chatMessages < MaxChat
    /\ chatMessages' = chatMessages + 1
    /\ event' = ClientEvent("chat_poll", Null)
    /\ UNCHANGED <<ledgerTrack, fetches, lastChainTrack, player, newestDone,
                   fields, ledgerVars, submitVars, proxyVars, trackVars>>

\* The client before its first event, for the specifications of the other
\* parts as well: the mount has sent the first tick's fetch.
ClientMounted ==
    /\ fetches = <<NewFetch>>
    /\ lastChainTrack = Null
    /\ player = InitPlayer
    /\ event = ClientEvent("mount", Null)
    /\ newestDone = Null
    /\ fields = Null
    /\ chatMessages = 0

(* -------------------- App: change_track submissions ------------------- *)

\* Most submissions of one client explored that are unresolved together.
MaxSubmissions == 2

\* What the user types or clicks.
SearchInputs == {" ", " SKELET ", "horizon"}

\* String.prototype.trim on the inputs of the model.
trim(s) ==
    CASE s = " "        -> ""
      [] s = " SKELET " -> "SKELET"
      [] OTHER          -> s

\* Messages of failed transactions (err.message).
Errors == {"rejected"}

\* Variant: the failure is swallowed.
FailureSwallowed(err) == Null

\* `Transaction failed: ${String(err?.message || err)}`
FailureMessage(err) == "Transaction failed: " \o err

\* Variant: nothing holds a submission back.
BlockedNever(w) == FALSE

\* if (waiting) in handleSearch.
Blocked(w) == w

\* Variant: the guard is released without the answer of refetch().
RefetchedStale(old, ledger, ok) == old

\* What refetch() leaves in the query's data: the ledger's current_track,
\* or the old data when the request fails.
Refetched(old, ledger, ok) == IF ok THEN ledger ELSE old

\* The sequence s without its k-th element.
Without(s, k) ==
    [i \in 1 .. (Len(s) - 1) |-> IF i < k THEN s[i] ELSE s[i + 1]]

\* doChangeTrack up to signAndExecute: the message is cleared, the guard
\* is set, the transaction is built and handed to the wallet.
DoChangeTrack(newTitle) ==
    /\ Len(submission) < MaxSubmissions
    /\ uiMsg' = Null
    /\ waiting' = TRUE
    /\ submission' = Append(submission,
                            [title |-> newTitle, phase |-> "signing"])

\* handleSearch(rawTitle), called by the playlist click (onTrackSelect) and
\* by the click in the track panel.
handleSearch(rawTitle) ==
    /\ LET newTitle == trim(rawTitle)
       IN  IF newTitle = ""
           THEN /\ uiMsg' = "Type a track title first."
                /\ UNCHANGED <<waiting, pendingQuery, submission>>
           ELSE IF Blocked(waiting)
           THEN /\ uiMsg' = "Please wait for the previous transaction."
                /\ UNCHANGED <<waiting, pendingQuery, submission>>
           ELSE IF ~currentAccount
           THEN /\ pendingQuery' = newTitle
                /\ UNCHANGED <<waiting, uiMsg, submission>>
           ELSE /\ DoChangeTrack(newTitle)
                /\ UNCHANGED pendingQuery
    /\ event' = ClientEvent("handleSearch", Null)
    /\ UNCHANGED <<currentAccount, ledgerTrack, fetches, lastChainTrack,
                   player, newestDone, fields, ledgerVars, proxyVars, trackVars, chatMessages>>

\* The wallet connects: the effect on currentAccount replays the pending
\* request, if there is one.
connect ==
    /\ ~currentAccount
    /\ currentAccount' = TRUE
    /\ IF pendingQuery # Null
       THEN /\ DoChangeTrack(pendingQuery)
            /\ pendingQuery' = Null
       ELSE UNCHANGED <<waiting, uiMsg, pendingQuery, submission>>
    /\ event' = ClientEvent("connect", Null)
    /\ UNCHANGED <<ledgerTrack, fetches, lastChainTrack, player, newestDone,
                   fields, ledgerVars, proxyVars, trackVars, chatMessages>>

\* The wallet disconnects: the effect runs and finds no account.
disconnect ==
    /\ currentAccount
    /\ currentAccount' = FALSE
    /\ event' = ClientEvent("disconnect", Null)
    /\ UNCHANGED <<waiting, uiMsg, pendingQuery, submission, ledgerTrack,
                   fetches, lastChainTrack, player, newestDone, fields,
                   ledgerVars, proxyVars, trackVars, chatMessages>>

\* signAndExecute fails (the user rejects, the execution fails): onError.
onError(k, err) ==
    /\ k \in 1 .. Len(submission)
    /\ submission[k].phase = "signing"
    /\ uiMsg' = FailureMessage(err)
    /\ waiting' = FALSE
    /\ submission' = Without(submission, k)
    /\ event' = ClientEvent("onError", Null)
    /\ UNCHANGED <<pendingQuery, currentAccount, ledgerTrack, fetches,
                   lastChainTrack, player, newestDone, fields, ledgerVars,
                   proxyVars, trackVars, chatMessages>>

\* signAndExecute succeeds: the transaction has run change_track, and
\* onSuccess waits for it with waitForTransaction.
onSuccess(k) ==
    /\ k \in 1 .. Len(submission)
    /\ submission[k].phase = "signing"
    /\ ledgerTrack' = submission[k].title
    /\ submission' = [submission EXCEPT ![k].phase = "confirming"]
    /\ event' = ClientEvent("onSuccess", Null)
    /\ UNCHANGED <<waiting, uiMsg, pendingQuery, currentAccount, fetches,
                   lastChainTrack, player, newestDone, fields, ledgerVars,
                   proxyVars, trackVars, chatMessages>>

\* waitForTransaction settles.  When it resolves, onSuccess calls
\* refetch(); when it rejects (a timeout, a failed request), the await
\* throws out of onSuccess, which has no try around it, and the rest of
\* onSuccess, setWaiting(false) included, does not run.
waitForTransaction_done(k, ok) ==
    /\ k \in 1 .. Len(submission)
    /\ submission[k].phase = "confirming"
    /\ submission' = IF ok THEN [submission EXCEPT ![k].phase = "refetching"]
                     ELSE Without(submission, k)
    /\ event' = ClientEvent(IF ok THEN "confirmed" ELSE "confirm_failed", Null)
    /\ UNCHANGED <<waiting, uiMsg, pendingQuery, currentAccount, ledgerTrack,
                   fetches, lastChainTrack, player, newestDone, fields,
                   ledgerVars, proxyVars, trackVars, chatMessages>>

\* refetch() resolves: the query's data are the ledger's, a changed
\* current_track runs the auto-play effect, and onSuccess releases the
\* guard.
refetch_done(k, ok) ==
    /\ k \in 1 .. Len(submission)
    /\ submission[k].phase = "refetching"
    /\ LET now   == Refetched(fields, ledgerTrack, ok)
           after == IF now # fields THEN AutoPlay(player, now) ELSE player
       IN  /\ fields' = now
           /\ player' = after
           /\ fetches' = AfterRender(fetches, player, after)
           /\ Len(fetches') <= MaxInFlight
           /\ chatMessages' = IF now # fields
                              THEN AutoClear(chatMessages, now)
                              ELSE chatMessages
    /\ waiting' = FALSE
    /\ submission' = Without(submission, k)
    /\ event' = ClientEvent("refetch_done", IF ok THEN ledgerTrack ELSE Null)
    /\ UNCHANGED <<uiMsg, pendingQuery, currentAccount, ledgerTrack,
                   lastChainTrack, newestDone, ledgerVars, proxyVars,
                   trackVars>>

\* The submitting side of the parent before its first event.
InitSubmit ==
    /\ waiting = FALSE
    /\ uiMsg = Null
    /\ pendingQuery = Null
    /\ currentAccount = FALSE
    /\ submission = <<>>

(* ---------------------- the blob proxy (/api/audio) ------------------- *)

\* How many of the configured aggregators, in their order, are explored.
MaxMirrors == 3

\* WALRUS_AGGREGATORS, by position in the list.
WALRUS_AGGREGATORS == [i \in 1 .. MaxMirrors |-> i]

ProxyBlobs == {"blobA", "blobB"}

Methods == {"GET", "HEAD"}

\* The connections whose requests the server is handling, one request each
\* at a time.
Callers == {"c1", "c2"}

\* How a fetch to an aggregator ends: response.ok, a status that is not
\* ok, or a thrown network error.
Outcomes == {"ok", "status", "throws"}

\* No file in CACHE_DIR for the blob id; the empty body of a HEAD response
\* or of an error.
NoFile == 0

\* The bytes the aggregator at position i of the list returns for a blob.
Body(i) == i

Idle == [busy |-> FALSE, blobId |-> "", method |-> "", contacted |-> <<>>]

\* error.message of the error a fetch to the aggregator at position i
\* throws.
NetworkError(i) == i

\* No error message: the response is not an error.
NoError == [name |-> "", last |-> 0]

\* new Error(`All Walrus aggregators failed. Last error: ${error.message}`)
AllAggregatorsFailed(last) ==
    [name |-> "All Walrus aggregators failed", last |-> last]

\* What fs.writeFileSync throws for data that is undefined, before it
\* opens the file.
InvalidArgType == [name |-> "ERR_INVALID_ARG_TYPE", last |-> 0]

NoResponse ==
    [blobId |-> "", method |-> "", status |-> 0, body |-> NoFile,
     contacted |-> <<>>, error |-> NoError]

\* No read stream on the caller's response.
NoStream == [state |-> "none", blobId |-> ""]

\* fs.createReadStream(filePath) piped to the response, no chunk read yet.
OpenStream(blobId) == [state |-> "open", blobId |-> blobId]

\* The stream a response gets from streamAudioFile: none for a HEAD.
CreateReadStream(blobId, method) ==
    IF method = "HEAD" THEN NoStream ELSE OpenStream(blobId)

\* The open streams on the file of blobId, other than the caller's own.
ReadersOf(streams, blobId, caller) ==
    {c \in Callers \ {caller} :
        streams[c].state = "open" /\ streams[c].blobId = blobId}

\* Variant: the cache is never consulted.
CacheIgnored(files, blobId) == FALSE

\* fs.existsSync(cacheFile)
ExistsSync(files, blobId) == files[blobId] # NoFile

\* Variant: the loop starts again from the first aggregator.
NextMirrorFirst(contacted) == 1

\* The aggregator the for loop of downloadFromWalrus asks next.
NextMirror(contacted) == WALRUS_AGGREGATORS[Len(contacted) + 1]

\* fs.writeFileSync(cacheFile, audioBuffer)
WriteFileSync(files, blobId, buffer) == [files EXCEPT ![blobId] = buffer]

\* streamAudioFile(cacheFile, res, method): 200, and the file for a GET.
StreamAudioFile(files, blobId, method, contacted) ==
    [blobId |-> blobId, method |-> method, status |-> 200,
     body |-> IF method = "HEAD" THEN NoFile ELSE files[blobId],
     contacted |-> contacted, error |-> NoError]

\* sendError(res, 500, `Failed to fetch audio: ${error.message}`)
SendError(blobId, method, contacted, error) ==
    [blobId |-> blobId, method |-> method, status |-> 500, body |-> NoFile,
     contacted |-> contacted, error |-> error]

\* The error handleAudioRequest catches after the last aggregator failed:
\* the one downloadFromWalrus throws when the last fetch threw; when the
\* last answer was a non-ok status the loop ends, downloadFromWalrus
\* returns undefined and writeFileSync throws on it.
DownloadFailure(outcome, mirror) ==
    IF outcome = "throws" THEN AllAggregatorsFailed(NetworkError(mirror))
    ELSE InvalidArgType

\* handleAudioRequest up to its first await: a cached blob is streamed from
\* the disk, for another one downloadFromWalrus sends its first fetch.
audio_request(caller, blobId, method) ==
    /\ ~reqs[caller].busy
    /\ piping[caller].state # "open"
    /\ IF ExistsSync(cache, blobId)
       THEN /\ response' = StreamAudioFile(cache, blobId, method, <<>>)
            /\ servedOk' = servedOk \cup {blobId}
            /\ piping' = [piping EXCEPT
                             ![caller] = CreateReadStream(blobId, method)]
            /\ UNCHANGED reqs
       ELSE /\ reqs' = [reqs EXCEPT ![caller] =
                          [busy |-> TRUE, blobId |-> blobId,
                           method |-> method, contacted |-> <<>>]]
            /\ piping' = [piping EXCEPT ![caller] = NoStream]
            /\ UNCHANGED <<response, servedOk>>
    /\ event' = ClientEvent("audio_request", blobId)
    /\ UNCHANGED <<cache, ledgerTrack, fetches, lastChainTrack, player,
                   newestDone, fields, ledgerVars, submitVars, uploadVars, trackVars, chatMessages>>

\* The fetch of a download in progress ends: on ok the buffer is written to
\* the cache and streamed; otherwise the loop goes to the next aggregator,
\* and after the last one the request ends with a 500 (the loop throws, or
\* it returns nothing and writeFileSync throws).  writeFileSync truncates
\* and rewrites the file on the main thread while the reads of the streams
\* already open on it run on the thread pool: each of those streams either
\* goes on, or reads the end of a file that is not yet rewritten and ends.
mirror_response(caller, outcome) ==
    /\ reqs[caller].busy
    /\ LET r         == reqs[caller]
           mirror    == NextMirror(r.contacted)
           contacted == Append(r.contacted, mirror)
       IN  IF outcome = "ok"
           THEN LET files == WriteFileSync(cache, r.blobId, Body(mirror))
                IN  /\ cache' = files
                    /\ response' = StreamAudioFile(files, r.blobId, r.method,
                                                   contacted)
                    /\ servedOk' = servedOk \cup {r.blobId}
                    /\ reqs' = [reqs EXCEPT ![caller] = Idle]
                    /\ \E torn \in SUBSET ReadersOf(piping, r.blobId, caller) :
                          piping' =
                             [c \in Callers |->
                                IF c = caller
                                THEN CreateReadStream(r.blobId, r.method)
                                ELSE IF c \in torn
                                THEN [piping[c] EXCEPT !.state = "truncated"]
                                ELSE piping[c]]
           ELSE IF Len(contacted) < Len(WALRUS_AGGREGATORS)
           THEN /\ reqs' = [reqs EXCEPT ![caller].contacted = contacted]
                /\ UNCHANGED <<cache, response, servedOk, piping>>
           ELSE /\ response' = SendError(r.blobId, r.method, contacted,
                                         DownloadFailure(outcome, mirror))
                /\ reqs' = [reqs EXCEPT ![caller] = Idle]
                /\ UNCHANGED <<cache, servedOk, piping>>
    /\ event' = ClientEvent("mirror_response", outcome)
    /\ UNCHANGED <<ledgerTrack, fetches, lastChainTrack, player, newestDone,
                   fields, ledgerVars, submitVars, uploadVars, trackVars, chatMessages>>

\* The read stream of a response reads the file to its end and the
\* response ends with all the bytes of Content-Length.
stream_end(caller) ==
    /\ piping[caller].state = "open"
    /\ piping' = [piping EXCEPT ![caller].state = "complete"]
    /\ event' = ClientEvent("stream_end", piping[caller].blobId)
    /\ UNCHANGED <<cache, reqs, response, servedOk, ledgerTrack, fetches,
                   lastChainTrack, player, newestDone, fields, ledgerVars,
                   submitVars, uploadVars, trackVars, chatMessages>>

(* ---------------------- the blob proxy (/api/upload) ------------------ *)

\* How many of the configured publishers, in their order, are explored.
MaxPublishers == 3

\* WALRUS_PUBLISHERS, by position in the list.
WALRUS_PUBLISHERS == [i \in 1 .. MaxPublishers |-> i]

\* The body of a POST /api/upload: a multipart form with a file part, one
\* without, or a body that is not a multipart form.
Forms == {"file", "nofile", "notmultipart"}

\* How a PUT to a publisher ends: ok with a blob id in the answer, a status
\* that is not ok, ok without a blob id, or a thrown error.
PublisherOutcomes == {"ok", "status", "noBlobId", "throws"}

\* The blob id the publisher at position i assigns to the file.
AssignedBlobId(i) == i

\* The value of a blobId that is undefined.
NoBlobId == 0

NoUpload == [busy |-> FALSE, tried |-> <<>>]

NoUploadResponse ==
    [status |-> 0, success |-> FALSE, blobId |-> NoBlobId, tried |-> <<>>,
     error |-> NoError]

\* What parseMultipartFormData rejects with.
ParseError(form) ==
    [name |-> IF form = "nofile" THEN "No file found in form data"
              ELSE "Content-Type must be multipart/form-data",
     last |-> 0]

\* new Error(`All Walrus publishers failed. Last error: ${error.message}`)
AllPublishersFailed(last) ==
    [name |-> "All Walrus publishers failed", last |-> last]

\* The publisher the for loop of uploadToWalrus asks next.
NextPublisher(tried) == WALRUS_PUBLISHERS[Len(tried) + 1]

\* res.writeHead(200) and the JSON body {success: true, blobId, ...}
UploadSuccess(blobId, tried) ==
    [status |-> 200, success |-> TRUE, blobId |-> blobId, tried |-> tried,
     error |-> NoError]

\* sendError(res, 500, `Upload failed: ${error.message}`)
UploadError(tried, error) ==
    [status |-> 500, success |-> FALSE, blobId |-> NoBlobId,
     tried |-> tried, error |-> error]

\* handleUploadRequest up to the first fetch of uploadToWalrus: the form is
\* parsed, and a form without a file is answered with an error (parseFormData
\* returns a file part or throws, so that !fileBuffer never holds).
upload_request(caller, form) ==
    /\ ~uploads[caller].busy
    /\ IF form = "file"
       THEN /\ uploads' = [uploads EXCEPT
                              ![caller] = [busy |-> TRUE, tried |-> <<>>]]
            /\ UNCHANGED uploadResponse
       ELSE /\ uploadResponse' = UploadError(<<>>, ParseError(form))
            /\ UNCHANGED uploads
    /\ event' = ClientEvent("upload_request", form)
    /\ UNCHANGED <<audioVars, ledgerTrack, fetches, lastChainTrack, player,
                   newestDone, fields, ledgerVars, submitVars, trackVars, chatMessages>>

\* The PUT of an upload in progress ends.  With a blob id in an ok answer
\* uploadToWalrus returns it and the 200 is sent.  After a non-ok status or
\* an answer without blob id the loop continues; after a thrown error it
\* continues too, unless the publisher was the last one, and then it throws.
\* When the loop ends without return or throw, uploadToWalrus returns
\* undefined and the 200 is sent with it.
publisher_response(caller, outcome) ==
    /\ uploads[caller].busy
    /\ LET publisher == NextPublisher(uploads[caller].tried)
           tried     == Append(uploads[caller].tried, publisher)
       IN  IF outcome = "ok"
           THEN /\ uploadResponse' =
                      UploadSuccess(AssignedBlobId(publisher), tried)
                /\ uploads' = [uploads EXCEPT ![caller] = NoUpload]
           ELSE IF Len(tried) < Len(WALRUS_PUBLISHERS)
           THEN /\ uploads' = [uploads EXCEPT ![caller].tried = tried]
                /\ UNCHANGED uploadResponse
           ELSE /\ uploadResponse' =
                      IF outcome = "throws"
                      THEN UploadError(tried,
                               AllPublishersFailed(NetworkError(publisher)))
                      ELSE UploadSuccess(NoBlobId, tried)
                /\ uploads' = [uploads EXCEPT ![caller] = NoUpload]
    /\ event' = ClientEvent("publisher_response", outcome)
    /\ UNCHANGED <<audioVars, ledgerTrack, fetches, lastChainTrack, player,
                   newestDone, fields, ledgerVars, submitVars, trackVars, chatMessages>>

\* The proxy after start, nothing requested yet.
ProxyStarted ==
    /\ reqs = [caller \in Callers |-> Idle]
    /\ response = NoResponse
    /\ servedOk = {}
    /\ piping = [caller \in Callers |-> NoStream]
    /\ uploads = [caller \in Callers |-> NoUpload]
    /\ uploadResponse = NoUploadResponse

\* The proxy after start on an empty cache directory.
InitProxy ==
    /\ cache = [blobId \in ProxyBlobs |-> NoFile]
    /\ ProxyStarted

(* ------------------------------ TrackCache ---------------------------- *)

\* One megabyte, in bytes.
MB == 1024 * 1024

\* maxCacheSize
maxCacheSize == 100 * MB

\* How far the accounted size is followed, in megabytes.
MaxAccountedMB == 250

\* How many getTrack calls download at the same time.
MaxDownloads == 2

\* How many milliseconds Date.now() is followed.
MaxClock == 2

TrackBlobs == {"t1", "t2", "t3"}

\* metadata.fileSize as the callers pass it.
FileSizes == {40 * MB, 70 * MB}

\* The position of blobId in the cache map (in insertion order), 0 when
\* the map has no entry for it.
IndexOf(entries, blobId) ==
    IF \E i \in 1 .. Len(entries) : entries[i].blobId = blobId
    THEN CHOOSE i \in 1 .. Len(entries) : entries[i].blobId = blobId
    ELSE 0

\* this.cache.has(blobId)
Has(entries, blobId) == IndexOf(entries, blobId) # 0

\* this.cache.set(blobId, cachedTrack): a new key goes to the end, an
\* existing key keeps its place and takes the new value.
MapSet(entries, cachedTrack) ==
    IF Has(entries, cachedTrack.blobId)
    THEN [entries EXCEPT ![IndexOf(entries, cachedTrack.blobId)] = cachedTrack]
    ELSE Append(entries, cachedTrack)

\* this.cache.delete(blobId)
MapDelete(entries, blobId) ==
    SelectSeq(entries, LAMBDA entry : entry.blobId # blobId)

\* clearTrack(blobId) on the state tc of the cache.
ClearTrack(tc, blobId) ==
    IF Has(tc.cache, blobId)
    THEN [tc EXCEPT
             !.currentCacheSize =
                 @ - tc.cache[IndexOf(tc.cache, blobId)].fileSize,
             !.cache = MapDelete(@, blobId)]
    ELSE tc

\* Math.max(1, Math.floor(entries.length * 0.25))
ToRemove(n) == IF n \div 4 >= 1 THEN n \div 4 ELSE 1

\* entries.sort((a, b) => a[1].cachedAt - b[1].cachedAt), a stable sort:
\* whether the entry at position i comes before the one at position j.
SortsBefore(entries, i, j) ==
    \/ entries[i].cachedAt < entries[j].cachedAt
    \/ entries[i].cachedAt = entries[j].cachedAt /\ i < j

\* The blob ids of the first k entries of the sorted array.
Oldest(entries, k) ==
    {entries[i].blobId : i \in
        {i \in 1 .. Len(entries) :
            Cardinality({j \in 1 .. Len(entries) :
                            SortsBefore(entries, j, i)}) < k}}

RECURSIVE ClearTracks(_, _)
ClearTracks(tc, blobIds) ==
    IF blobIds = {} THEN tc
    ELSE LET blobId == CHOOSE b \in blobIds : TRUE
         IN  ClearTracks(ClearTrack(tc, blobId), blobIds \ {blobId})

\* Whether evictOldest throws: with an empty map toRemove is 1 and
\* entries[0] is undefined, which cannot be destructured.
EvictThrows(tc) == Len(tc.cache) < ToRemove(Len(tc.cache))

\* evictOldest() when it does not throw.
EvictOldest(tc) ==
    ClearTracks(tc, Oldest(tc.cache, ToRemove(Len(tc.cache))))

\* The check of the size limit in getTrack.
OverLimit(tc, fileSize) == tc.currentCacheSize + fileSize > maxCacheSize

\* What getTrack does to the cache after its download: evict if the new
\* entry would go over the limit, then set the entry and add its size.
AddToCache(tc, blobId, fileSize) ==
    LET room == IF OverLimit(tc, fileSize) THEN EvictOldest(tc) ELSE tc
    IN  [room EXCEPT
            !.cache = MapSet(@, [blobId |-> blobId, cachedAt |-> tc.now,
                                 fileSize |-> fileSize]),
            !.currentCacheSize = @ + fileSize]

\* Remove the k-th element of a sequence.
Drop(s, k) == [i \in 1 .. (Len(s) - 1) |-> IF i < k THEN s[i] ELSE s[i + 1]]

\* getTrack(blobId, metadata) up to its await, also when preloadTrack calls
\* it (preloadTrack makes the same test of the map first): a cached track
\* is returned, for another one the download starts.
getTrack(blobId, fileSize, preload) ==
    /\ IF Has(trackCache.cache, blobId)
       THEN UNCHANGED tcCalls
       ELSE /\ Len(tcCalls) < MaxDownloads
            /\ tcCalls' = Append(tcCalls, [blobId |-> blobId,
                                           fileSize |-> fileSize,
                                           preload |-> preload])
    /\ event' = ClientEvent(IF preload THEN "preloadTrack" ELSE "getTrack",
                            blobId)
    /\ UNCHANGED <<trackCache, ledgerTrack, fetches, lastChainTrack, player,
                   newestDone, fields, ledgerVars, submitVars, proxyVars, chatMessages>>

\* The download of the k-th call ends.  When it fails, or when evictOldest
\* throws, getTrack rejects and the cache is as before; otherwise the entry
\* is added.
download_done(k, ok) ==
    /\ k \in 1 .. Len(tcCalls)
    /\ LET call   == tcCalls[k]
           thrown == \/ ~ok
                     \/ /\ OverLimit(trackCache, call.fileSize)
                        /\ EvictThrows(trackCache)
       IN  /\ trackCache' =
                 IF thrown THEN trackCache
                 ELSE AddToCache(trackCache, call.blobId, call.fileSize)
           /\ trackCache'.currentCacheSize <= MaxAccountedMB * MB
           /\ event' = ClientEvent("download_done",
                                   IF thrown THEN Null ELSE call.blobId)
    /\ tcCalls' = Drop(tcCalls, k)
    /\ UNCHANGED <<ledgerTrack, fetches, lastChainTrack, player, newestDone,
                   fields, ledgerVars, submitVars, proxyVars, chatMessages>>

\* clearTrack(blobId), called from outside.
clearTrack(blobId) ==
    /\ trackCache' = ClearTrack(trackCache, blobId)
    /\ event' = ClientEvent("clearTrack", blobId)
    /\ UNCHANGED <<tcCalls, ledgerTrack, fetches, lastChainTrack, player,
                   newestDone, fields, ledgerVars, submitVars, proxyVars, chatMessages>>

\* clearAll()
clearAll ==
    /\ trackCache' = [trackCache EXCEPT !.cache = <<>>,
                                        !.currentCacheSize = 0]
    /\ event' = ClientEvent("clearAll", Null)
    /\ UNCHANGED <<tcCalls, ledgerTrack, fetches, lastChainTrack, player,
                   newestDone, fields, ledgerVars, submitVars, proxyVars, chatMessages>>

\* A millisecond passes: Date.now() returns the next value.
clock_tick ==
    /\ trackCache.now < MaxClock
    /\ trackCache' = [trackCache EXCEPT !.now = @ + 1]
    /\ event' = ClientEvent("clock_tick", Null)
    /\ UNCHANGED <<tcCalls, ledgerTrack, fetches, lastChainTrack, player,
                   newestDone, fields, ledgerVars, submitVars, proxyVars, chatMessages>>

\* new TrackCache()
TrackCacheCreated ==
    /\ trackCache = [cache |-> <<>>, currentCacheSize |-> 0, now |-> 0]
    /\ tcCalls = <<>>

(* -------------------------- specifications ---------------------------- *)

Init ==
    /\ revision \in {"v1", "v2"}
    /\ jukebox = IF revision = "v1" THEN InitJukeboxV1 ELSE InitJukeboxV2
    /\ lastTx = InitTx
    /\ committed = [title |-> Silence, payer |-> Deployer]
    /\ mj = NewMusicJukebox(Deployer)
    /\ mjTx = InitMjTx(Deployer)
    /\ ledgerTrack = Silence
    /\ ClientMounted
    /\ InitSubmit
    /\ TrackCacheCreated
    /\ InitProxy

Next ==
    \/ \E sender \in Addresses, title \in Titles : addTrack(sender, title)
    \/ \E sender \in Addresses, paid \in Payments, new_track \in Titles :
          change_track_v1(sender, paid, new_track)
    \/ \E sender \in Addresses, paid \in Payments, new_track \in Titles :
          change_track(sender, paid, new_track)

Spec == Init /\ [][Next]_vars

InitMJ ==
    /\ revision = "v2"
    /\ jukebox = InitJukeboxV2
    /\ lastTx = InitTx
    /\ committed = [title |-> Silence, payer |-> Deployer]
    /\ \E creator \in Addresses :
          /\ mj = NewMusicJukebox(creator)
          /\ mjTx = InitMjTx(creator)
    /\ ledgerTrack = Silence
    /\ ClientMounted
    /\ InitSubmit
    /\ TrackCacheCreated
    /\ InitProxy

NextMJ ==
    \/ \E sender \in Addresses, title \in Titles, artist \in ArtistNames,
          blob \in BlobIds, duration \in Durations :
          add_track(sender, title, artist, blob, duration)
    \/ \E sender \in Addresses, index \in 0 .. (MaxMusicTracks + 1) :
          remove_track(sender, index)

SpecMJ == InitMJ /\ [][NextMJ]_vars

\* The ledger as the client specifications start from it.
InitLedger ==
    /\ revision = "v2"
    /\ jukebox = InitJukeboxV2
    /\ lastTx = InitTx
    /\ committed = [title |-> Silence, payer |-> Deployer]
    /\ mj = NewMusicJukebox(Deployer)
    /\ mjTx = InitMjTx(Deployer)

\* One client's AudioPlayer and the ledger value it polls.
InitClient ==
    /\ InitLedger
    /\ ledgerTrack \in ChainValues
    /\ ClientMounted
    /\ InitSubmit
    /\ TrackCacheCreated
    /\ InitProxy

NextPoll ==
    \/ \E v \in ChainValues : ledger_change(v)
    \/ timer_fire
    \/ \E k \in 1 .. MaxInFlight, ok \in BOOLEAN : tick_response(k, ok)
    \/ \E i \in 0 .. (Len(PLAYLIST) - 1) : advance(i)

SpecPoll == InitClient /\ [][NextPoll]_vars

NextPlayer ==
    \/ \E v \in ChainValues : ledger_change(v)
    \/ query_result
    \/ play_button
    \/ \E i \in 0 .. (Len(PLAYLIST) - 1) : advance(i)
    \/ \E i \in 0 .. (Len(PLAYLIST) - 1) : onend(i)
    \/ \E o \in player.orphans : onend_orphan(o)
    \/ refresh
    \/ \E k \in 1 .. MaxInFlight, ok \in BOOLEAN : tick_response(k, ok)

\* The polling AudioPlayer whose playlist gains a track.
NextGain ==
    \/ \E v \in ChainValues : ledger_change(v)
    \/ timer_fire
    \/ \E k \in 1 .. MaxInFlight, ok \in BOOLEAN : tick_response(k, ok)
    \/ \E i \in 0 .. Len(PLAYLIST) : advance(i)
    \/ playlist_gain

SpecGain == InitClient /\ [][NextGain]_vars

\* The parent App: the object query, the poll of the Walrus tracks, the
\* poll of the chat; the player's own poll goes on.
NextApp ==
    \/ \E v \in ChainValues : ledger_change(v)
    \/ query_result
    \/ refresh
    \/ chat_poll
    \/ \E i \in 0 .. (Len(PLAYLIST) - 1) : advance(i)
    \/ \E k \in 1 .. MaxInFlight, ok \in BOOLEAN : tick_response(k, ok)

SpecApp == InitClient /\ [][NextApp]_vars

SpecPlayer == InitClient /\ [][NextPlayer]_vars

NextSubmit ==
    \/ \E rawTitle \in SearchInputs : handleSearch(rawTitle)
    \/ connect
    \/ disconnect
    \/ \E k \in 1 .. MaxSubmissions, err \in Errors : onError(k, err)
    \/ \E k \in 1 .. MaxSubmissions : onSuccess(k)
    \/ \E k \in 1 .. MaxSubmissions, ok \in BOOLEAN :
          waitForTransaction_done(k, ok)
    \/ \E k \in 1 .. MaxSubmissions, ok \in BOOLEAN : refetch_done(k, ok)
    \/ \E i \in 0 .. (Len(PLAYLIST) - 1) : advance(i)
    \/ \E k \in 1 .. MaxInFlight, ok \in BOOLEAN : tick_response(k, ok)

SpecSubmit == InitClient /\ [][NextSubmit]_vars

\* The wallet answers every request to sign, and every waitForTransaction,
\* refetch and poll request settles.
FairSubmit ==
    /\ WF_vars(\E k \in 1 .. MaxSubmissions :
                  \/ onSuccess(k)
                  \/ \E err \in Errors : onError(k, err))
    /\ WF_vars(\E k \in 1 .. MaxSubmissions, ok \in BOOLEAN :
                  waitForTransaction_done(k, ok))
    /\ WF_vars(\E k \in 1 .. MaxSubmissions, ok \in BOOLEAN :
                  refetch_done(k, ok))
    /\ WF_vars(\E k \in 1 .. MaxInFlight, ok \in BOOLEAN :
                  tick_response(k, ok))

SpecSubmitFair == InitClient /\ [][NextSubmit]_vars /\ FairSubmit

\* The proxy starts on the cache directory as earlier runs left it.
InitBlobProxy ==
    /\ InitLedger
    /\ ledgerTrack = Silence
    /\ ClientMounted
    /\ InitSubmit
    /\ TrackCacheCreated
    /\ cache \in [ProxyBlobs -> {NoFile, Body(1)}]
    /\ ProxyStarted

NextProxy ==
    \/ \E caller \in Callers, blobId \in ProxyBlobs, method \in Methods :
          audio_request(caller, blobId, method)
    \/ \E caller \in Callers, outcome \in Outcomes :
          mirror_response(caller, outcome)
    \/ \E caller \in Callers : stream_end(caller)

SpecProxy == InitBlobProxy /\ [][NextProxy]_vars

\* The position of an aggregator that accepts the connection and sends no
\* answer: the fetch to it has no timeout and no abort signal, so that
\* nothing but an answer settles it.
SilentMirror == 2

\* A fetch of the caller's download settles, the aggregator being one that
\* answers.
Answers(caller) ==
    /\ NextMirror(reqs[caller].contacted) # SilentMirror
    /\ \E outcome \in Outcomes : mirror_response(caller, outcome)

\* Every aggregator but the silent one answers each fetch, and every read
\* stream comes to its end.
FairProxy ==
    \A caller \in Callers :
       /\ WF_vars(Answers(caller))
       /\ WF_vars(stream_end(caller))

SpecProxyStall == InitBlobProxy /\ [][NextProxy]_vars /\ FairProxy

NextTrackCache ==
    \/ \E blobId \in TrackBlobs, fileSize \in FileSizes, preload \in BOOLEAN :
          getTrack(blobId, fileSize, preload)
    \/ \E k \in 1 .. MaxDownloads, ok \in BOOLEAN : download_done(k, ok)
    \/ \E blobId \in TrackBlobs : clearTrack(blobId)
    \/ clearAll
    \/ clock_tick

\* A page that has created its TrackCache.
InitTrackCache ==
    /\ InitLedger
    /\ ledgerTrack = Silence
    /\ ClientMounted
    /\ InitSubmit
    /\ TrackCacheCreated
    /\ InitProxy

SpecTrackCache == InitTrackCache /\ [][NextTrackCache]_vars

NextUpload ==
    \/ \E caller \in Callers, form \in Forms : upload_request(caller, form)
    \/ \E caller \in Callers, outcome \in PublisherOutcomes :
          publisher_response(caller, outcome)

SpecUpload == InitBlobProxy /\ [][NextUpload]_vars

(* ------------------------- reading a transaction ---------------------- *)

RECURSIVE SumAmounts(_)
SumAmounts(transfers) ==
    IF transfers = <<>> THEN 0
    ELSE Head(transfers).amount + SumAmounts(Tail(transfers))

\* What the transfers of tx bring to address a.
Received(tx, a) ==
    SumAmounts(SelectSeq(tx.transfers, LAMBDA t : t.to = a))

\* The net change of a's balance over tx: what it received, less the payment
\* coin if a is the sender and the coin was consumed.
BalanceChange(tx, a) ==
    Received(tx, a) - (IF a = tx.sender THEN tx.consumed ELSE 0)

NoBalanceChanged(tx) ==
    /\ tx.transfers = <<>>
    /\ tx.consumed = 0
    /\ \A a \in Addresses : BalanceChange(tx, a) = 0

\* The positions of the registry entries that carry title t.
EntriesOf(collection, t) ==
    {i \in 1 .. Len(collection) : collection[i].title = t}

IsRegistered(collection, t) == EntriesOf(collection, t) # {}

\* The entry registered first under title t.
FirstRegistered(collection, t) ==
    collection[CHOOSE i \in EntriesOf(collection, t) :
                   \A j \in EntriesOf(collection, t) : i <= j]

(* ------------------------------- C1 ----------------------------------- *)

\* C1: in the registry-aware revision, change_track(p, t) with p >= fee and t
\* registered succeeds and ends with current_track = t and last_buyer = the
\* caller; the artist registered for t is sent exactly fee / 2 (truncated),
\* the owner exactly fee - fee / 2, the caller exactly p - fee (nothing when
\* p = fee), and the three amounts add up to p, the value of the coin paid.
C1_ChangeTrackSplitsFee ==
    (/\ revision = "v2"
     /\ lastTx.op = "change_track"
     /\ lastTx.paid >= jukebox.fee
     /\ IsRegistered(jukebox.collection, lastTx.title))
    => LET fee == jukebox.fee
           p == lastTx.paid
           artist == FirstRegistered(jukebox.collection, lastTx.title).artist
           refund == IF p = fee THEN <<>>
                     ELSE <<[to |-> lastTx.sender, amount |-> p - fee]>>
       IN  /\ lastTx.status = "success"
           /\ jukebox.current_track = lastTx.title
           /\ jukebox.last_buyer = lastTx.sender
           /\ lastTx.transfers =
                 refund \o <<[to |-> artist, amount |-> fee \div 2],
                             [to |-> jukebox.owner,
                              amount |-> fee - (fee \div 2)]>>
           /\ lastTx.consumed = p
           /\ SumAmounts(lastTx.transfers) = p
           /\ (fee \div 2) + (fee - (fee \div 2)) + (p - fee) = p

\* An overpaid change_track where caller, artist and owner are three accounts.
C1_Witness ==
    /\ revision = "v2"
    /\ lastTx.op = "change_track"
    /\ lastTx.status = "success"
    /\ lastTx.paid > jukebox.fee
    /\ LET artist == FirstRegistered(jukebox.collection, lastTx.title).artist
       IN  /\ artist # jukebox.owner
           /\ artist # lastTx.sender
           /\ lastTx.sender # jukebox.owner
           /\ Received(lastTx, artist) = jukebox.fee \div 2
           /\ Received(lastTx, lastTx.sender) = lastTx.paid - jukebox.fee

(* ------------------------------- C2 ----------------------------------- *)

\* C2: in both revisions, a change_track whose payment is below the fee
\* aborts with E_INSUFFICIENT_PAYMENT, and the step leaves the Jukebox (owner,
\* fee, last_buyer, current_track, collection) and every balance as they were.
C2_InsufficientPaymentAborts ==
    [][(lastTx'.op = "change_track" /\ lastTx'.paid < jukebox.fee)
        => /\ lastTx'.status = "abort"
           /\ lastTx'.code = E_INSUFFICIENT_PAYMENT
           /\ jukebox' = jukebox
           /\ committed' = committed
           /\ NoBalanceChanged(lastTx')]_vars

\* An underpaid change_track for a registered title, after the track has
\* already been changed once.
C2_Witness ==
    /\ revision = "v2"
    /\ lastTx.op = "change_track"
    /\ lastTx.paid < jukebox.fee
    /\ lastTx.status = "abort"
    /\ lastTx.code = E_INSUFFICIENT_PAYMENT
    /\ IsRegistered(jukebox.collection, lastTx.title)
    /\ jukebox.current_track # Silence
    /\ jukebox.current_track # lastTx.title

(* ------------------------------- C3 ----------------------------------- *)

\* C3: in the registry-aware revision, a sufficiently paid change_track for a
\* title that no entry of the collection carries aborts with
\* E_TRACK_NOT_FOUND; no coin moves and the Jukebox is left as it was.
C3_UnknownTrackAborts ==
    [][(/\ revision = "v2"
        /\ lastTx'.op = "change_track"
        /\ lastTx'.paid >= jukebox.fee
        /\ ~IsRegistered(jukebox.collection, lastTx'.title))
        => /\ lastTx'.status = "abort"
           /\ lastTx'.code = E_TRACK_NOT_FOUND
           /\ jukebox' = jukebox
           /\ committed' = committed
           /\ NoBalanceChanged(lastTx')]_vars

\* change_track(fee, t) refused while the registry holds other titles only.
C3_Witness ==
    /\ revision = "v2"
    /\ lastTx.op = "change_track"
    /\ lastTx.paid = jukebox.fee
    /\ lastTx.status = "abort"
    /\ lastTx.code = E_TRACK_NOT_FOUND
    /\ Len(jukebox.collection) >= 2
    /\ ~IsRegistered(jukebox.collection, lastTx.title)
    /\ jukebox.current_track # Silence

(* ------------------------------- C4 ----------------------------------- *)

\* C4: addTrack of a title that another artist has already registered adds a
\* second entry and keeps the first, and every successful change_track sends
\* the artist share to the artist of the entry registered first under the
\* title; an artist who registered the title later receives nothing from it
\* (unless that artist is also the owner or the caller).
C4_FirstRegisteredArtistIsPaid ==
    [][/\ (/\ lastTx'.op = "addTrack"
           /\ \E i \in EntriesOf(jukebox.collection, lastTx'.title) :
                 jukebox.collection[i].artist # lastTx'.sender)
          => LET old == jukebox.collection
                 new == jukebox'.collection
             IN  /\ Len(new) = Len(old) + 1
                 /\ \A i \in 1 .. Len(old) : new[i] = old[i]
                 /\ new[Len(new)].title = lastTx'.title
                 /\ new[Len(new)].artist = lastTx'.sender
                 /\ \A i \in 1 .. Len(old) : new[Len(new)].id # new[i].id
                 /\ FirstRegistered(new, lastTx'.title)
                       = FirstRegistered(old, lastTx'.title)
       /\ (/\ revision = "v2"
           /\ lastTx'.op = "change_track"
           /\ lastTx'.status = "success")
          => LET c == jukebox'.collection
                 first == FirstRegistered(c, lastTx'.title).artist
                 n == Len(lastTx'.transfers)
             IN  /\ IsRegistered(c, lastTx'.title)
                 /\ lastTx'.transfers[n - 1]
                       = [to |-> first, amount |-> jukebox.fee \div 2]
                 /\ \A i \in EntriesOf(c, lastTx'.title) :
                       c[i].artist \notin {first, jukebox.owner, lastTx'.sender}
                          => Received(lastTx', c[i].artist) = 0]_vars

\* The title was registered by one artist, then something else was
\* registered, then a second artist registered the title again; a paid
\* change_track credited the first artist.
C4_Witness ==
    /\ revision = "v2"
    /\ Len(jukebox.collection) = 3
    /\ jukebox.collection[1].title = jukebox.collection[3].title
    /\ jukebox.collection[2].title # jukebox.collection[1].title
    /\ jukebox.collection[1].artist # jukebox.collection[3].artist
    /\ jukebox.collection[1].artist # jukebox.owner
    /\ jukebox.collection[3].artist # jukebox.owner
    /\ lastTx.op = "change_track"
    /\ lastTx.status = "success"
    /\ lastTx.title = jukebox.collection[1].title
    /\ lastTx.sender = jukebox.owner
    /\ Received(lastTx, jukebox.collection[1].artist) = jukebox.fee \div 2
    /\ Received(lastTx, jukebox.collection[3].artist) = 0

(* ------------------------------- C5 ----------------------------------- *)

\* C5: in every committed state of either revision, current_track and
\* last_buyer are the title and the sender of one and the same change_track,
\* the last that succeeded (or both are as init wrote them), whatever calls
\* by whichever callers came before and after it.
C5_TrackAndPayerFromSameCall ==
    /\ jukebox.current_track = committed.title
    /\ jukebox.last_buyer = committed.payer
    /\ (lastTx.op = "change_track" /\ lastTx.status = "success")
          => (committed.title = lastTx.title /\ committed.payer = lastTx.sender)

\* After one caller changed the track, another caller's change_track for
\* another title was refused: the pair is still the first caller's.
C5_Witness ==
    /\ lastTx.op = "change_track"
    /\ lastTx.status = "abort"
    /\ committed.payer # Deployer
    /\ lastTx.sender \notin {committed.payer, Deployer}
    /\ lastTx.title # committed.title
    /\ jukebox.current_track = committed.title
    /\ jukebox.last_buyer = committed.payer

(* ------------------------------- C6 ----------------------------------- *)

\* C6: after any sequence of addTrack and change_track calls, successful or
\* aborted, fee is the ONE_SUI that init set and owner is the deployer.
C6_FeeAndOwnerFixed ==
    /\ jukebox.fee = ONE_SUI
    /\ jukebox.owner = Deployer

\* A track was registered and bought by others than the owner, and the last
\* call aborted.
C6_Witness ==
    /\ revision = "v2"
    /\ Len(jukebox.collection) >= 2
    /\ jukebox.last_buyer # Deployer
    /\ lastTx.op = "change_track"
    /\ lastTx.status = "abort"
    /\ jukebox.fee = ONE_SUI
    /\ jukebox.owner = Deployer

(* ------------------------------- C7 ----------------------------------- *)

\* C7: addTrack(title) by any sender takes no coin and succeeds; it puts one
\* entry with that title and artist = sender at the end of the collection,
\* keeps the entries that were there in their order, whether or not the title
\* was registered before, and leaves current_track, last_buyer, fee, owner
\* and every balance as they were.
C7_AddTrackAppends ==
    [][(lastTx'.op = "addTrack")
        => LET old == jukebox.collection
               new == jukebox'.collection
           IN  /\ lastTx'.status = "success"
               /\ lastTx'.paid = 0
               /\ Len(new) = Len(old) + 1
               /\ SubSeq(new, 1, Len(old)) = old
               /\ new[Len(new)].title = lastTx'.title
               /\ new[Len(new)].artist = lastTx'.sender
               /\ jukebox'.current_track = jukebox.current_track
               /\ jukebox'.last_buyer = jukebox.last_buyer
               /\ jukebox'.fee = jukebox.fee
               /\ jukebox'.owner = jukebox.owner
               /\ committed' = committed
               /\ NoBalanceChanged(lastTx')]_vars

\* A title that is already registered has just been registered again, behind
\* an entry of another title.
C7_Witness ==
    /\ revision = "v2"
    /\ lastTx.op = "addTrack"
    /\ Len(jukebox.collection) = 3
    /\ jukebox.collection[3].title = lastTx.title
    /\ jukebox.collection[3].artist = lastTx.sender
    /\ jukebox.collection[1].title = lastTx.title
    /\ jukebox.collection[2].title # lastTx.title
    /\ jukebox.current_track # Silence

(* ------------------------------- C8 ----------------------------------- *)

\* C8: remove_track(index) by a sender who is not the owner aborts with the
\* code of the owner assertion and leaves the MusicJukebox as it was,
\* whether index is within tracks or past its end.
C8_RemoveByOtherAborts ==
    [][(mjTx'.op = "remove_track" /\ mjTx'.sender # mj.owner)
        => /\ mjTx'.status = "abort"
           /\ mjTx'.code = E_NOT_OWNER
           /\ mjTx'.returned = <<>>
           /\ mj' = mj]_vars

\* A stranger's remove_track of an index that exists was refused.
C8_Witness ==
    /\ mjTx.op = "remove_track"
    /\ mjTx.sender # mj.owner
    /\ mjTx.status = "abort"
    /\ mjTx.code = E_NOT_OWNER
    /\ Len(mj.tracks) >= 2
    /\ mjTx.index < Len(mj.tracks)

(* ------------------------------- C9 ----------------------------------- *)

\* How often entry e occurs in the sequence v.
Occurrences(v, e) == Cardinality({i \in 1 .. Len(v) : v[i] = e})

\* C9: remove_track(index) by the owner with index < length of tracks
\* succeeds, returns the entry that was at index, and leaves tracks one
\* shorter with every other entry still in it; with index at or past the
\* length it aborts (index out of bounds) and tracks is as it was.
C9_RemoveByOwner ==
    [][(mjTx'.op = "remove_track" /\ mjTx'.sender = mj.owner)
        => IF mjTx'.index < Len(mj.tracks)
           THEN LET gone == mj.tracks[mjTx'.index + 1]
                IN  /\ mjTx'.status = "success"
                    /\ mjTx'.returned = <<gone>>
                    /\ Len(mj'.tracks) = Len(mj.tracks) - 1
                    /\ \A i \in 1 .. Len(mj.tracks) :
                          Occurrences(mj'.tracks, mj.tracks[i])
                             = Occurrences(mj.tracks, mj.tracks[i])
                                  - (IF mj.tracks[i] = gone THEN 1 ELSE 0)
                    /\ mj'.owner = mj.owner
           ELSE /\ mjTx'.status = "abort"
                /\ mjTx'.code = EINDEX_OUT_OF_BOUNDS
                /\ mj' = mj]_vars

\* The owner removed the first of three entries; the two that are left are
\* different from the one returned.
C9_Witness ==
    /\ mjTx.op = "remove_track"
    /\ mjTx.sender = mj.owner
    /\ mjTx.status = "success"
    /\ mjTx.index = 0
    /\ Len(mj.tracks) = 2
    /\ mj.tracks[1] # mj.tracks[2]
    /\ Len(mjTx.returned) = 1
    /\ mjTx.returned[1] \notin {mj.tracks[1], mj.tracks[2]}

(* ------------------------------- C10 ---------------------------------- *)

\* C10: every successful change_track of the registry-aware revision emits
\* exactly one event, carrying the title, the artist paid and the payer of
\* the transition, and an aborted one emits none.
C10_ChangeTrackEmitsEvent ==
    (revision = "v2" /\ lastTx.op = "change_track")
    => IF lastTx.status = "success"
       THEN lastTx.events =
               <<[title |-> lastTx.title,
                  artist |-> FirstRegistered(jukebox.collection,
                                             lastTx.title).artist,
                  payer |-> lastTx.sender]>>
       ELSE lastTx.events = <<>>

(* ------------------------- reading the client ------------------------- *)

\* The Howl of the song at currentIndex.
CurrentHowl(p) == p.playlist[p.currentIndex + 1].howl

\* No song of the playlist has key as its file or, whatever the case, as
\* its title.
MatchesNoSong(playlist, key) ==
    \A i \in 1 .. Len(playlist) :
        /\ playlist[i].file # key
        /\ toLowerCase(playlist[i].title) # toLowerCase(key)

(* ------------------------------- C11 ---------------------------------- *)
\* C11: a tick changes playback only when the value it read differs from
\* the one the previous tick observed.  A tick that reads the value already
\* in lastChainTrackRef leaves the player as it is (nothing is stopped,
\* restarted or rewound) and the observed value as it is; a tick that does
\* change the player read a different value, which is then the observed
\* one.  Hence over the polled values A, A, B, B, C the songs start at the
\* first A and switch at A->B and at B->C only.
C11_SwitchOnlyOnChangedPoll ==
    [][event'.op = "tick" =>
          /\ (event'.key = lastChainTrack \/ event'.key = Null)
                => (player' = player /\ lastChainTrack' = lastChainTrack)
          /\ player' # player
                => /\ event'.key # lastChainTrack
                   /\ lastChainTrack' = event'.key
                   /\ PlayingSongs(player') = {player'.currentIndex}]_vars

\* A tick has read the value observed before while a song was playing past
\* its start, and the song plays on from where it was.
C11_Witness ==
    /\ event.op = "tick"
    /\ event.key # Null
    /\ event.key = lastChainTrack
    /\ CurrentHowl(player).playing
    /\ CurrentHowl(player).pos = 1

(* ------------------------------- C12 ---------------------------------- *)
\* C12: a tick whose polled value matches no song of the playlist, by file
\* or by title in any case, leaves the player unchanged (current index,
\* playing Howl, position); it remembers the value, sends no fetch of its
\* own and the interval goes on.
C12_UnknownTrackLeavesPlayback ==
    [][(event'.op = "tick" /\ event'.key # Null
          /\ MatchesNoSong(player.playlist, event'.key))
          => /\ player' = player
             /\ lastChainTrack' = event'.key
             /\ Len(fetches') = Len(fetches) - 1]_vars

\* A tick has read a value that matches no song while a song was playing
\* past its start.
C12_Witness ==
    /\ event.op = "tick"
    /\ event.key # Null
    /\ MatchesNoSong(player.playlist, event.key)
    /\ lastChainTrack = event.key
    /\ CurrentHowl(player).playing
    /\ CurrentHowl(player).pos = 1

(* ------------------------------- C13 ---------------------------------- *)
\* C13: at most one Howl is playing at any time, whatever the interleaving
\* of ticks, plays triggered by the parent and ends of songs.
C13_AtMostOnePlaying == PlayingCount(player) <= 1

(* ------------------------------- C14 ---------------------------------- *)
\* C14: never two poll fetches of the client in flight together.
C14_PollsSequential == Len(fetches) <= 1

(* ------------------------------- C15 ---------------------------------- *)
\* C15: the observed ledger value is the value read by the latest poll
\* that has answered, also when the answers arrive out of order.
C15_ObservedIsLatestPolled ==
    newestDone # Null => lastChainTrack = newestDone

(* ------------------------------- C16 ---------------------------------- *)
\* C16: a client never has two change_track submissions unresolved
\* together, and the guard is set for as long as one is unresolved,
\* whichever path asks: a click (handleSearch) or the replay of the pending
\* request when the wallet connects.
C16_SingleFlight ==
    /\ Len(submission) <= 1
    /\ submission # <<>> => waiting

\* A request arrived while a submission was unresolved and was turned down.
C16_Witness ==
    /\ event.op = "handleSearch"
    /\ Len(submission) = 1
    /\ waiting
    /\ uiMsg = "Please wait for the previous transaction."

(* ------------------------------- C17 ---------------------------------- *)
\* C17: when a submission fails, the step that handles the failure shows a
\* message, releases the guard, leaves the pending request as it was and
\* starts no submission; no step of a submission before its confirmation
\* touches the player (current index, Howls, positions); a submission
\* starts only in a step of the user: a click or the wallet connecting.
C17_FailureSurfacedPlaybackKept ==
    [][/\ event'.op = "onError"
          => /\ uiMsg' # Null
             /\ ~waiting'
             /\ pendingQuery' = pendingQuery
             /\ Len(submission') = Len(submission) - 1
       /\ event'.op \in {"handleSearch", "connect", "onSuccess", "onError"}
          => player' = player
       /\ Len(submission') > Len(submission)
          => event'.op \in {"handleSearch", "connect"}]_vars

\* A submission has failed while a song was playing past its start: the
\* message is shown and the song plays on.
C17_Witness ==
    /\ event.op = "onError"
    /\ uiMsg = "Transaction failed: rejected"
    /\ ~waiting
    /\ submission = <<>>
    /\ CurrentHowl(player).playing
    /\ CurrentHowl(player).pos = 1

C19_CachedServedWithoutOutbound ==
    [][(/\ event'.op = "audio_request"
        /\ (cache[event'.key] # NoFile \/ event'.key \in servedOk))
          => /\ response'.blobId = event'.key
             /\ response'.status = 200
             /\ response'.contacted = <<>>
             /\ response'.method = "GET" => response'.body = cache[event'.key]
             /\ reqs' = reqs
             /\ cache' = cache]_vars

\* A GET has been answered from the disk with the bytes that a download of
\* this run had taken from the third aggregator.
C19_Witness ==
    /\ event.op = "audio_request"
    /\ response.status = 200
    /\ response.method = "GET"
    /\ response.contacted = <<>>
    /\ response.blobId \in servedOk
    /\ response.body = Body(3)

(* ------------------------------- C20 ---------------------------------- *)
\* C20: when a fetch of a download answers ok, the aggregators contacted
\* for the request are the first ones of the configured list in its order,
\* the one that answered being the last; the request is over (no further
\* aggregator is asked), the response is a 200 whose body, for a GET, is
\* what that aggregator returned, and the cache holds those bytes for the
\* blob id.  A request for the same blob that comes next is answered
\* without any fetch.
C20_FirstSuccessfulMirrorServes ==
    [][/\ (event'.op = "mirror_response" /\ event'.key = "ok")
          => LET k == Len(response'.contacted)
             IN  /\ k >= 1
                 /\ response'.contacted =
                       [i \in 1 .. k |-> WALRUS_AGGREGATORS[i]]
                 /\ response'.status = 200
                 /\ response'.method = "GET" => response'.body = Body(k)
                 /\ cache'[response'.blobId] = Body(k)
                 /\ \E caller \in Callers :
                       /\ reqs[caller].busy
                       /\ reqs[caller].blobId = response'.blobId
                       /\ ~reqs'[caller].busy
       /\ (/\ event'.op = "audio_request"
           /\ response.status = 200
           /\ response.contacted # <<>>
           /\ response.blobId = event'.key)
          => /\ response'.contacted = <<>>
             /\ response'.status = 200
             /\ reqs' = reqs]_vars

\* The first two aggregators have failed and the third has answered: its
\* bytes are the body of the response and the content of the cache file.
C20_Witness ==
    /\ event.op = "mirror_response"
    /\ event.key = "ok"
    /\ response.status = 200
    /\ response.method = "GET"
    /\ response.contacted = <<1, 2, 3>>
    /\ response.body = Body(3)
    /\ cache[response.blobId] = Body(3)

(* ------------------------------- C21 ---------------------------------- *)
\* C21: a download that ends in failure has asked every configured
\* aggregator, in the order of the list; its response is the failure of all
\* aggregators ("All Walrus aggregators failed") carrying the error of the
\* last one, whether the aggregators failed by a non-ok status or by a
\* thrown error, and the step writes no cache file.
C21_AllMirrorsFailedReported ==
    [][\A caller \in Callers :
          (/\ event'.op = "mirror_response"
           /\ event'.key # "ok"
           /\ reqs[caller].busy
           /\ ~reqs'[caller].busy)
             => /\ response'.status = 500
                /\ response'.blobId = reqs[caller].blobId
                /\ response'.contacted = WALRUS_AGGREGATORS
                /\ response'.error.name = AllAggregatorsFailed(0).name
                /\ event'.key = "throws"
                      => response'.error.last = NetworkError(MaxMirrors)
                /\ cache' = cache]_vars

(* ------------------------------- C24 ---------------------------------- *)
\* C24: a cache file that exists holds the complete body of one successful
\* aggregator response; a read stream is open only on a file that has been
\* written; and no response is cut short by a read of its stream from a
\* file that is being rewritten.
C24_NeverServedFromPartialFile ==
    /\ \A blobId \in ProxyBlobs :
          cache[blobId] # NoFile
             => \E i \in 1 .. MaxMirrors : cache[blobId] = Body(i)
    /\ \A caller \in Callers :
          /\ piping[caller].state = "open"
                => ExistsSync(cache, piping[caller].blobId)
          /\ piping[caller].state # "truncated"

(* ------------------------------- C22 ---------------------------------- *)
\* C22: an upload ends in one of two ways.  When a publisher answers ok
\* with a blob id, the publishers asked are the first ones of the list in
\* its order, and the 200 carries the blob id that publisher assigned.
\* When the last publisher fails too, the response is a 500 with the
\* failure of all publishers and, after a thrown error, that error.  A 200
\* never goes out without a blob id.
C22_FirstPublisherOrAllFailed ==
    [][\A caller \in Callers :
          (/\ event'.op = "publisher_response"
           /\ uploads[caller].busy
           /\ ~uploads'[caller].busy)
             => LET k == Len(uploadResponse'.tried)
                IN  /\ uploadResponse'.tried =
                          [i \in 1 .. k |-> WALRUS_PUBLISHERS[i]]
                    /\ uploadResponse'.status = 200
                          => uploadResponse'.blobId # NoBlobId
                    /\ event'.key = "ok"
                          => /\ uploadResponse'.status = 200
                             /\ uploadResponse'.blobId = AssignedBlobId(k)
                    /\ event'.key # "ok"
                          => /\ k = MaxPublishers
                             /\ uploadResponse'.status = 500
                             /\ uploadResponse'.error.name =
                                   AllPublishersFailed(0).name
                             /\ event'.key = "throws"
                                   => uploadResponse'.error.last =
                                         NetworkError(MaxPublishers)]_vars

(* ------------------------------- C23 ---------------------------------- *)
\* C23: every audio request that has started a download is answered in
\* the end, with a 200 or with an error, although one aggregator accepts
\* the connection and never answers.
C23_EveryRequestAnswered ==
    \A caller \in Callers : reqs[caller].busy ~> ~reqs[caller].busy

\* The sum of fileSize over the entries of the cache map.
RECURSIVE SumFileSize(_)
SumFileSize(entries) ==
    IF entries = <<>> THEN 0
    ELSE Head(entries).fileSize + SumFileSize(Tail(entries))

(* ------------------------------- C25 ---------------------------------- *)
\* C25: the accounted size of the cache, currentCacheSize, never exceeds
\* maxCacheSize.
C25_CacheSizeWithinLimit ==
    trackCache.currentCacheSize <= maxCacheSize

(* ------------------------------- C26 ---------------------------------- *)
\* C26: currentCacheSize is the sum of fileSize over the entries that are
\* in the cache map.
C26_SizeIsSumOfEntries ==
    trackCache.currentCacheSize = SumFileSize(trackCache.cache)

(* ------------------------------- C27 ---------------------------------- *)
\* C27: whenever the guard is set it is released later: no submission,
\* however it ends, leaves waiting true for ever.
C27_GuardEventuallyReleased ==
    waiting ~> ~waiting

(* ------------------------------- C28 ---------------------------------- *)
\* C28: a refresh of the Walrus track list, which leaves the query's
\* current_track as it is, keeps what the chat shows and starts no song:
\* a song that plays after the step played before it, and is as far into
\* its audio as it was.
C28_RefreshKeepsPlaybackAndChat ==
    [][event'.op = "refresh"
          => /\ fields' = fields
             /\ chatMessages' = chatMessages
             /\ \A i \in PlayingSongs(player') :
                   /\ i \in PlayingSongs(player)
                   /\ player'.playlist[i + 1].howl.pos
                         = player.playlist[i + 1].howl.pos]_vars

(* ------------------------------- C29 ---------------------------------- *)
\* current_track is the placeholder of init or a title of the registry.
TrackKnown(jb) ==
    \/ jb.current_track = Silence
    \/ IsRegistered(jb.collection, jb.current_track)

\* C29: in the revision with the registry, current_track is "Silence" or
\* the title of an entry of the collection, before and after every call; and
\* current_track and last_buyer change only in a change_track that succeeds,
\* whose payment is at least the fee and whose title is registered, to that
\* title and to the sender of that call (so that last_buyer is the deployer
\* or such a caller).
C29_TrackRegisteredPayerPaid ==
    [][revision = "v2"
          => /\ TrackKnown(jukebox)
             /\ TrackKnown(jukebox')
             /\ (\/ jukebox'.current_track # jukebox.current_track
                 \/ jukebox'.last_buyer # jukebox.last_buyer)
                   => /\ lastTx'.op = "change_track"
                      /\ lastTx'.status = "success"
                      /\ lastTx'.paid >= jukebox.fee
                      /\ IsRegistered(jukebox.collection, lastTx'.title)
                      /\ jukebox'.current_track = lastTx'.title
                      /\ jukebox'.last_buyer = lastTx'.sender]_vars

\* A caller other than the deployer has paid for a registered title after
\* another title had been played: the title is current and the caller is
\* the last buyer.
C29_Witness ==
    /\ revision = "v2"
    /\ lastTx.op = "change_track"
    /\ lastTx.status = "success"
    /\ lastTx.paid >= jukebox.fee
    /\ jukebox.last_buyer = lastTx.sender
    /\ jukebox.last_buyer # Deployer
    /\ jukebox.current_track = lastTx.title
    /\ IsRegistered(jukebox.collection, jukebox.current_track)
    /\ Len(jukebox.collection) = MaxTracks

(* ------------------------------- C30 ---------------------------------- *)
\* C30: a tick that reads a value other than the one recorded records it,
\* also when no song of the playlist matches it, and then leaves the player
\* alone; a tick that reads the recorded value leaves the player alone,
\* also when the playlist has a song for the value by now; a tick that
\* reads another value than the recorded one, with a song for it, makes
\* that song the current one and plays it.
C30_UnresolvedValueIsObserved ==
    [][(event'.op = "tick" /\ event'.key # Null)
          => /\ lastChainTrack' = event'.key
             /\ event'.key = lastChainTrack => player' = player
             /\ (/\ event'.key # lastChainTrack
                 /\ MatchesNoSong(player.playlist, event'.key))
                   => player' = player
             /\ (/\ event'.key # lastChainTrack
                 /\ ~MatchesNoSong(player.playlist, event'.key))
                   => /\ player'.currentIndex =
                            Resolve(player.playlist, event'.key)
                      /\ CurrentHowl(player').playing]_vars

\* The value "ghost" was recorded while no song matched it; the playlist
\* has gained the song since, the ledger still says "ghost", and a tick has
\* read it: the song is not the current one and does not play.
C30_Witness ==
    /\ event.op = "tick"
    /\ event.key = "ghost"
    /\ lastChainTrack = "ghost"
    /\ ledgerTrack = "ghost"
    /\ Len(player.playlist) = Len(PLAYLIST) + 1
    /\ Resolve(player.playlist, "ghost") = Len(PLAYLIST)
    /\ player.currentIndex # Len(PLAYLIST)
    /\ ~player.playlist[Len(PLAYLIST) + 1].howl.playing

====
